---- MODULE Spec2Model ----
(***************************************************************************)
(* Model of flaskext/mongoengine/wtf/orm.py: the ModelConverter registry,  *)
(* ModelConverter.convert and its conv_* methods, model_fields and         *)
(* model_form.                                                             *)
(*                                                                         *)
(* Python values are represented as follows.                               *)
(*   - an optional scalar (None or a value) is the empty sequence <<>> or  *)
(*     the one-element sequence <<v>>, so that None and 0 stay distinct;   *)
(*   - a dict is a function whose DOMAIN is its key set ({} is <<>>);      *)
(*   - a list is a sequence;                                               *)
(*   - an object is a record; the value None returned by a conversion is   *)
(*     the record Nothing.                                                 *)
(* A list object that is shared between two dicts (kwargs.update copies    *)
(* references, not lists) is modelled by threading the list's final value  *)
(* back to its owner: every conversion returns both its result and the     *)
(* state in which it leaves the dict it was handed.                        *)
(***************************************************************************)
EXTENDS Integers, Sequences, FiniteSets, TLC

\* ------------------------------------------------------------------ bounds
\* Largest declared numeric bound / length / byte count of a schema field.
MaxVal == 2
\* A caller stops calling once a validators list it owns holds this many entries.
MaxValidators == 2
\* Interpreter recursion limit, counted in frames of the call stack.
MaxDepth == 16

\* ---------------------------------------------------------- python values
None == <<>>

Some(v) == <<v>>

\* Python truthiness of an optional number: None and 0 are falsy.
Truthy(x) == x # None /\ x[1] # 0

\* Python truthiness of an optional string: None and '' are falsy.
TruthyStr(x) == x # None /\ x[1] # ""

\* Python truthiness of an optional collection of names: None and the empty
\* collection are falsy.
TruthySet(x) == x # None /\ x[1] # {}

\* Python `a or b` on optional numbers.
Or(a, b) == IF Truthy(a) THEN a ELSE b

\* F applied to the value of x, with x evaluated once (a local variable
\* holding the result of a call).
With(x, F(_)) == CHOOSE y \in { F(v) : v \in {x} } : TRUE

\* The value a conversion returns when it produces no form field.
Nothing == [kind |-> "None"]

EmptyDict == <<>>

\* dict.get(key): None when the key is absent.  None and {} are both falsy
\* at the only place the result is tested (convert), and are both <<>> here.
Get(d, key) == IF key \in DOMAIN d THEN d[key] ELSE EmptyDict

\* kwargs.update(other): entries of other replace entries of kwargs per key.
Update(kwargs, other) == other @@ kwargs

\* list.append on the list stored under kwargs['validators'].
AppendValidator(kwargs, v) == [kwargs EXCEPT !.validators = Append(@, v)]

\* ------------------------------------------------------ wtforms validators
Required == [v |-> "Required"]

Length(max, min) == [v |-> "Length", min |-> min, max |-> max]

NumberRange(max, min) == [v |-> "NumberRange", min |-> min, max |-> max]

Regexp(regex) == [v |-> "Regexp", regex |-> regex]

URL == [v |-> "URL"]

Email == [v |-> "Email"]

\* -------------------------------------------------- wtforms field objects
\* f.<Kind>(**kwargs): an unbound field remembering its class and arguments.
UnboundField(kind, kwargs) == [kind |-> kind, kwargs |-> kwargs]

\* f.FieldList(unbound_field, min_entries=0, **kwargs)
FieldList(unbound_field, kwargs) ==
    [kind |-> "FieldList", unbound_field |-> unbound_field,
     kwargs |-> Update(kwargs, [min_entries |-> 0])]

\* f.FormField(form_class, **kwargs)
FormField(form_class, kwargs) ==
    [kind |-> "FormField", form_class |-> form_class, kwargs |-> kwargs]

\* ModelSelectField(model=document_type, **kwargs)
ModelSelectField(document_type, kwargs) ==
    [kind |-> "ModelSelectField", kwargs |-> Update(kwargs, [model |-> document_type])]

\* A reference to a schema class object.
ClassRef(model) == [kind |-> "class", name |-> model]

\* ------------------------------------------------- mongoengine field model
\* Placeholder for the attributes a field type does not have.
NoField == [type |-> "NoField"]

\* A mongoengine field descriptor with the defaults of BaseField: not
\* required, no choices, no default, no type-specific constraint.  The flag
\* to_form_field says whether the field object has a to_form_field method.
Field(name, type) ==
    [name |-> name, type |-> type, required |-> FALSE, choices |-> <<>>,
     to_form_field |-> FALSE, default |-> None,
     min_length |-> None, max_length |-> None, regex |-> None,
     min_value |-> None, max_value |-> None, max_bytes |-> None,
     field |-> NoField, document_type_obj |-> "", document_type |-> ""]

ListOf(name, type, elem) == [Field(name, type) EXCEPT !.field = elem]

Embedded(name, doc) ==
    [Field(name, "EmbeddedDocumentField") EXCEPT !.document_type_obj = doc]

Reference(name, doc) ==
    [Field(name, "ReferenceField") EXCEPT !.document_type = doc]

\* Declared bounds a numeric field, a length or a byte count may carry.
OptNum == {None, Some(0), Some(MaxVal)}

\* Element fields of the list fields that are explored.
ElemFields ==
    { Field("elem", "StringField"),
      [Field("elem", "StringField") EXCEPT !.required = TRUE],
      Field("elem", "ObjectIdField"),
      Field("elem", "UUIDField"),
      Embedded("elem", "Address") }

\* The field types and type-specific attributes that are explored.
TypeVariants ==
    { [Field("p", "StringField") EXCEPT !.max_length = mx, !.min_length = mn] :
          mx \in {None, Some(-1), Some(MaxVal)}, mn \in {None, Some(1)} }
    \cup { [Field("p", "StringField") EXCEPT !.regex = Some("re")] }
    \cup { [Field("p", t) EXCEPT !.max_length = mx] :
          t \in {"URLField", "EmailField"}, mx \in {None, Some(MaxVal)} }
    \cup { [Field("p", "IntField") EXCEPT !.min_value = mn, !.max_value = mx] :
          mn \in OptNum, mx \in OptNum }
    \cup { [Field("p", t) EXCEPT !.min_value = mn] :
          t \in {"FloatField", "DecimalField"}, mn \in OptNum }
    \cup { [Field("p", "BinaryField") EXCEPT !.max_bytes = mb] : mb \in OptNum }
    \cup { Field("p", t) :
          t \in {"BooleanField", "DateTimeField", "DictField", "GeoLocationField",
                 "ObjectIdField", "GenericReferenceField", "UUIDField"} }
    \cup { ListOf("p", t, e) : t \in {"ListField", "SortedListField"}, e \in ElemFields }
    \cup { Embedded("p", "Address"), Reference("p", "Person") }

\* Every explored field: each variant with each combination of the required
\* flag, declared choices and a self-conversion method.
ProbeFields ==
    { [fv EXCEPT !.required = rq, !.choices = ch, !.to_form_field = tf] :
          fv \in TypeVariants, rq \in BOOLEAN, ch \in {<<>>, <<"a", "b">>},
          tf \in BOOLEAN }

\* ------------------------------------------------------------------- state
VARIABLES
    schema,       \* the class the caller passes as `model`
    probe,        \* the field the schema Probe declares
    field_args,   \* the caller's field_args object, kept between calls
    field_args0,  \* the value field_args had when the caller built it
    converters,   \* the caller's converters table (None or a dict)
    converters0,  \* the value converters had when the caller built it
    converter,    \* the ModelConverter the caller constructed, or NoConverter
    last,         \* the latest call: its arguments and what it returned
    stack,        \* call stack of the stepwise walk
    nested,       \* nested model_form calls made by the stepwise walk
    pc            \* status of the stepwise walk

vars == <<schema, probe, field_args, field_args0, converters, converters0,
          converter, last,
          stack, nested, pc>>

callVars == <<schema, probe, field_args, field_args0, converters, converters0,
              converter, last>>

walkVars == <<stack, nested, pc>>

\* ----------------------------------------------------------------- schemas
\* Document classes whose embedded-document nesting is acyclic.
Documents == {"Person", "Address", "Settings", "Company", "Probe", "Wrap"}

\* Document classes that embed themselves, directly or through a list.
CyclicDocuments == {"Node", "TreeA", "TreeB"}

\* model._fields_order with model._fields[name] for each name in turn.
Fields(doc) ==
    CASE doc = "Person" ->
           << [Field("name", "StringField") EXCEPT !.max_length = Some(50), !.required = TRUE],
              [Field("age", "IntField") EXCEPT !.min_value = Some(0)],
              ListOf("tags", "ListField", Field("tags", "StringField")) >>
      [] doc = "Address" ->
           << [Field("street", "StringField") EXCEPT !.required = TRUE],
              Field("geo", "GeoLocationField"),
              Field("uid", "UUIDField") >>
      [] doc = "Settings" ->
           << Field("title", "StringField"),
              Field("model_class", "StringField") >>
      [] doc = "Company" ->
           << [Embedded("hq", "Address") EXCEPT !.required = TRUE],
              ListOf("offices", "ListField", Embedded("offices", "Address")),
              ListOf("ids", "SortedListField", Field("ids", "ObjectIdField")),
              Reference("owner", "Person"),
              [Embedded("kind", "Person") EXCEPT !.choices = <<"a", "b">>] >>
      [] doc = "Probe" -> << probe >>
      [] doc = "Wrap" ->
           << Embedded("inner", "Company"),
              ListOf("items", "ListField", Embedded("items", "Person")) >>
      [] doc = "Node" ->
           << Field("value", "IntField"), Embedded("next", "Node") >>
      [] doc = "TreeA" ->
           << ListOf("kids", "ListField", Embedded("kids", "TreeB")) >>
      [] doc = "TreeB" ->
           << Field("label", "StringField"), Embedded("back", "TreeA") >>
      [] OTHER -> << >>

\* BaseDocument in inspect.getmro(model)
IsDocument(doc) == doc \in Documents \cup CyclicDocuments

FieldNames(doc) == [i \in 1..Len(Fields(doc)) |-> Fields(doc)[i].name]

\* model._fields[name]
FieldNamed(doc, name) ==
    LET i == CHOOSE j \in 1..Len(Fields(doc)) : Fields(doc)[j].name = name
    IN  Fields(doc)[i]

\* ---------------------------------------------------------- ModelConverter
\* The methods tagged by @converts, keyed by the type names they are tagged with.
DefaultConverters ==
    [ StringField |-> "conv_String", URLField |-> "conv_URL",
      EmailField |-> "conv_Email", IntField |-> "conv_Int",
      FloatField |-> "conv_Float", DecimalField |-> "conv_Decimal",
      BooleanField |-> "conv_Boolean", DateTimeField |-> "conv_DateTime",
      BinaryField |-> "conv_Binary", DictField |-> "conv_Dict",
      ListField |-> "conv_List", SortedListField |-> "conv_SortedList",
      GeoLocationField |-> "conv_GeoLocation", ObjectIdField |-> "conv_ObjectId",
      EmbeddedDocumentField |-> "conv_EmbeddedDocument",
      ReferenceField |-> "conv_Reference",
      GenericReferenceField |-> "conv_GenericReference" ]

\* The merge a constructor would do if the caller's entries were written last.
CallerEntriesWin(given) == given @@ DefaultConverters

\* ModelConverter.__init__: start from the caller's dict (a fresh one when it
\* is None or empty) and write every tagged method into it.  The result is
\* self.converters; when the caller's dict is non-empty it is that same dict
\* object.
ModelConverter_init(given) == DefaultConverters @@ given

\* ModelConverter(): the converter model_fields builds when it is given none.
DefaultConverter == ModelConverter_init(EmptyDict)

\* Marks the absence of a converter argument.
NoConverter == [none |-> TRUE]

\* An exception raised to the caller.
TypeError == [kind |-> "TypeError"]

\* Result of a conversion method: the value it returns and the state in which
\* it leaves the kwargs dict it was handed (its lists are appended in place).
Result(ret, kwargs) == [ret |-> ret, kwargs |-> kwargs]

\* A convert that never adds the Required validator.
AddRequired_never(field, kwargs) == kwargs

\* convert, lines 47-48: a required field gets one Required validator.
AddRequired(field, kwargs) ==
    IF field.required THEN AppendValidator(kwargs, Required) ELSE kwargs

\* ModelConverter._string_common
string_common(model, field, kwargs) ==
    IF Truthy(field.max_length) \/ Truthy(field.min_length)
    THEN AppendValidator(kwargs, Length(Or(field.max_length, Some(-1)),
                                        Or(field.min_length, Some(-1))))
    ELSE kwargs

\* ModelConverter._number_common
number_common(model, field, kwargs) ==
    IF Truthy(field.max_value) \/ Truthy(field.min_value)
    THEN AppendValidator(kwargs, NumberRange(field.max_value, field.min_value))
    ELSE kwargs

conv_String(self, model, field, kwargs) ==
    LET k1 == IF TruthyStr(field.regex)
              THEN AppendValidator(kwargs, Regexp(field.regex))
              ELSE kwargs
        k2 == string_common(model, field, k1)
    IN  IF field.max_length = Some(-1)
        THEN Result(UnboundField("TextAreaField", k2), k2)
        ELSE Result(UnboundField("TextField", k2), k2)

conv_URL(self, model, field, kwargs) ==
    LET k2 == string_common(model, field, AppendValidator(kwargs, URL))
    IN  Result(UnboundField("TextField", k2), k2)

conv_Email(self, model, field, kwargs) ==
    LET k2 == string_common(model, field, AppendValidator(kwargs, Email))
    IN  Result(UnboundField("TextField", k2), k2)

conv_Int(self, model, field, kwargs) ==
    LET k1 == number_common(model, field, kwargs)
    IN  Result(UnboundField("IntegerField", k1), k1)

conv_Float(self, model, field, kwargs) ==
    LET k1 == number_common(model, field, kwargs)
    IN  Result(UnboundField("FloatField", k1), k1)

conv_Decimal(self, model, field, kwargs) ==
    LET k1 == number_common(model, field, kwargs)
    IN  Result(UnboundField("DecimalField", k1), k1)

conv_Boolean(self, model, field, kwargs) ==
    Result(UnboundField("BooleanField", kwargs), kwargs)

conv_DateTime(self, model, field, kwargs) ==
    Result(UnboundField("DateTimeField", kwargs), kwargs)

conv_Binary(self, model, field, kwargs) ==
    LET k1 == IF Truthy(field.max_bytes)
              THEN AppendValidator(kwargs, Length(field.max_bytes, Some(-1)))
              ELSE kwargs
    IN  Result(UnboundField("TextAreaField", k1), k1)

conv_Dict(self, model, field, kwargs) ==
    Result(UnboundField("TextAreaField", kwargs), kwargs)

conv_GeoLocation(self, model, field, kwargs) == Result(Nothing, kwargs)

\* A conversion of object ids that produces a field instead of nothing.
conv_ObjectId_asText(self, model, field, kwargs) ==
    Result(UnboundField("TextField", kwargs), kwargs)

conv_ObjectId(self, model, field, kwargs) == Result(Nothing, kwargs)

conv_Reference(self, model, field, kwargs) ==
    Result(ModelSelectField(field.document_type, kwargs), kwargs)

conv_GenericReference(self, model, field, kwargs) == Result(Nothing, kwargs)

\* A conversion function the caller registered in its converters table.
caller_conv(self, model, field, kwargs) ==
    Result(UnboundField("CallerField", kwargs), kwargs)

\* field.to_form_field(model, kwargs): the field's own conversion.
to_form_field(model, field, kwargs) ==
    Result(UnboundField("OwnField", kwargs), kwargs)

\* The kwargs list and sub-form conversions build from scratch.
FreshKwargs == [validators |-> <<>>, filters |-> <<>>]

\* After convert, the caller's field_args entry: its validators list is the
\* list object kwargs['validators'] named, with whatever was appended to it.
WriteBack(entry, kwargs) ==
    [k \in DOMAIN entry |-> IF k = "validators" THEN kwargs.validators ELSE entry[k]]

\* model_fields, lines 191-194
FilterNames(field_names, only, exclude) ==
    IF TruthySet(only)
    THEN SelectSeq(field_names, LAMBDA x : x \in only[1])
    ELSE IF TruthySet(exclude)
         THEN SelectSeq(field_names, LAMBDA x : x \notin exclude[1])
         ELSE field_names

\* model_form, line 232: the schema class is stored under 'model_class'.
SetModelClass(field_dict, model) == ("model_class" :> ClassRef(model)) @@ field_dict

\* type(name, (base_class,), field_dict)
NewClass(name, base_class, dict) == [name |-> name, bases |-> <<base_class>>, dict |-> dict]

RECURSIVE convert(_, _, _, _)
RECURSIVE CallConverter(_, _, _, _, _)
RECURSIVE conv_List(_, _, _, _)
RECURSIVE conv_EmbeddedDocument(_, _, _, _)
RECURSIVE Walk(_, _, _, _, _)
RECURSIVE model_fields(_, _, _, _, _)
RECURSIVE model_form(_, _, _, _, _, _)

\* ModelConverter.convert.  Returns the form field (or Nothing) and the state
\* in which the call leaves the field_args entry it was handed.
convert(self, model, field, entry) ==
    LET base == [label |-> field.name, description |-> "", validators |-> <<>>,
                 filters |-> <<>>, default |-> field.default]
        k0 == IF entry # EmptyDict THEN Update(base, entry) ELSE base
        k1 == AddRequired(field, k0)
    IN  With(IF field.choices # <<>>
             THEN Result(UnboundField("SelectField",
                                      Update(k1, [choices |-> field.choices])), k1)
             ELSE IF field.to_form_field
                  THEN to_form_field(model, field, k1)
                  ELSE IF field.type \in DOMAIN self
                       THEN CallConverter(self[field.type], self, model, field, k1)
                       ELSE Result(Nothing, k1),
             LAMBDA r : [ret |-> r.ret, entry |-> WriteBack(entry, r.kwargs)])

\* self.converters[ftype](model, field, kwargs)
CallConverter(fn, self, model, field, kwargs) ==
    CASE fn = "conv_String" -> conv_String(self, model, field, kwargs)
      [] fn = "conv_URL" -> conv_URL(self, model, field, kwargs)
      [] fn = "conv_Email" -> conv_Email(self, model, field, kwargs)
      [] fn = "conv_Int" -> conv_Int(self, model, field, kwargs)
      [] fn = "conv_Float" -> conv_Float(self, model, field, kwargs)
      [] fn = "conv_Decimal" -> conv_Decimal(self, model, field, kwargs)
      [] fn = "conv_Boolean" -> conv_Boolean(self, model, field, kwargs)
      [] fn = "conv_DateTime" -> conv_DateTime(self, model, field, kwargs)
      [] fn = "conv_Binary" -> conv_Binary(self, model, field, kwargs)
      [] fn = "conv_Dict" -> conv_Dict(self, model, field, kwargs)
      [] fn = "conv_List" -> conv_List(self, model, field, kwargs)
      [] fn = "conv_SortedList" -> conv_List(self, model, field, kwargs)
      [] fn = "conv_GeoLocation" -> conv_GeoLocation(self, model, field, kwargs)
      [] fn = "conv_ObjectId" -> conv_ObjectId(self, model, field, kwargs)
      [] fn = "conv_EmbeddedDocument" -> conv_EmbeddedDocument(self, model, field, kwargs)
      [] fn = "conv_Reference" -> conv_Reference(self, model, field, kwargs)
      [] fn = "conv_GenericReference" -> conv_GenericReference(self, model, field, kwargs)
      [] OTHER -> caller_conv(self, model, field, kwargs)

\* ModelConverter.conv_List (conv_SortedList forwards to it)
conv_List(self, model, field, kwargs) ==
    LET unbound_field == convert(self, model, field.field, EmptyDict).ret
    IN  Result(FieldList(unbound_field, FreshKwargs), kwargs)

\* ModelConverter.conv_EmbeddedDocument
conv_EmbeddedDocument(self, model, field, kwargs) ==
    LET form_class == model_form(field.document_type_obj, "ModelForm", None, None,
                                 EmptyDict, NoConverter).ret
    IN  Result(FormField(form_class, FreshKwargs), kwargs)

\* model_fields, lines 196-203: the loop over the remaining names.
Walk(conv, model, names, fargs, field_dict) ==
    IF names = <<>>
    THEN [ret |-> field_dict, field_args |-> fargs]
    ELSE LET name == Head(names)
         IN  With(convert(conv, model, FieldNamed(model, name), Get(fargs, name)),
                  LAMBDA r :
                      Walk(conv, model, Tail(names),
                           IF name \in DOMAIN fargs
                           THEN [fargs EXCEPT ![name] = r.entry]
                           ELSE fargs,
                           IF r.ret # Nothing
                           THEN (name :> r.ret) @@ field_dict
                           ELSE field_dict))

\* model_fields.  Returns the mapping (or the exception raised) and the state
\* in which the call leaves the caller's field_args object.
model_fields(model, only, exclude, fargs, conv) ==
    IF ~IsDocument(model)
    THEN [ret |-> TypeError, field_args |-> fargs]
    ELSE Walk(IF conv # NoConverter THEN conv ELSE DefaultConverter, model,
              FilterNames(FieldNames(model), only, exclude), fargs, EmptyDict)

\* model_form
model_form(model, base_class, only, exclude, fargs, conv) ==
    With(model_fields(model, only, exclude, fargs, conv),
         LAMBDA r :
             IF r.ret = TypeError
             THEN r
             ELSE [ret |-> NewClass(model \o "Form", base_class,
                                    SetModelClass(r.ret, model)),
                   field_args |-> r.field_args])

\* ------------------------------------------------------------ the caller
\* The record of a call that has not happened.
NoCall == [op |-> "none"]

\* What the caller may pass as (only, exclude): nothing, an empty collection
\* or the first declared name for either, alone and together.
FilterChoices(doc) ==
    LET first == IF Fields(doc) = <<>> THEN {} ELSE {FieldNames(doc)[1]}
    IN  { <<None, None>>, <<Some({}), None>>, <<Some(first), None>>,
          <<None, Some(first)>>, <<Some(first), Some(first)>>,
          <<Some({}), Some(first)>> }

\* What the caller may pass as (only, exclude) to model_form.
FormFilterChoices(doc) ==
    { f \in FilterChoices(doc) : f[1] # Some({}) /\ (f[1] = None \/ f[2] = None) }

\* The field_args objects the caller may build for a schema.
FieldArgsChoices(doc) ==
    IF Fields(doc) = <<>>
    THEN {EmptyDict}
    ELSE LET n == FieldNames(doc)[1]
         IN  { EmptyDict,
               (n :> [label |-> "Years"]),
               (n :> [validators |-> <<>>]),
               (n :> [validators |-> <<Required>>, filters |-> <<>>]) }

\* The converters tables the caller may pass to ModelConverter: none, one
\* that maps a type name the default table maps too, one that maps a type
\* name the default table lacks.
ConverterTables ==
    { EmptyDict, [StringField |-> "caller_conv"], [UUIDField |-> "caller_conv"] }

\* A caller that built a converters table constructs its converter before
\* it calls, and goes on calling while its validators lists are short.
CanCall ==
    /\ converters # EmptyDict => converter # NoConverter
    /\ \A n \in DOMAIN field_args :
          "validators" \in DOMAIN field_args[n]
              => Len(field_args[n].validators) < MaxValidators

InitCall ==
    /\ schema \in Documents \cup {"NotADocument"}
    /\ probe \in IF schema = "Probe"
                 THEN ProbeFields
                 ELSE {Field("p", "StringField")}
    /\ field_args \in FieldArgsChoices(schema)
    /\ field_args0 = field_args
    /\ converters \in ConverterTables
    /\ converters0 = converters
    /\ converter = NoConverter
    /\ last = NoCall

InitWalkIdle ==
    /\ stack = <<>>
    /\ nested = 0
    /\ pc = "idle"

Init == InitCall /\ InitWalkIdle

\* converter = ModelConverter(converters)
NewModelConverter ==
    /\ converter = NoConverter
    /\ converter' = ModelConverter_init(converters)
    /\ converters' = IF converters # EmptyDict THEN converter' ELSE converters
    /\ UNCHANGED <<schema, probe, field_args, field_args0, converters0, last>>
    /\ UNCHANGED walkVars

\* model_fields(schema, only, exclude, field_args, converter)
CallModelFields ==
    /\ CanCall
    /\ \E filter \in FilterChoices(schema) :
          \E r \in {model_fields(schema, filter[1], filter[2], field_args, converter)} :
              /\ last' = [op |-> "model_fields", only |-> filter[1],
                          exclude |-> filter[2], field_args |-> field_args,
                          converter |-> converter, ret |-> r.ret]
              /\ field_args' = r.field_args
    /\ UNCHANGED <<schema, probe, field_args0, converters, converters0, converter>>
    /\ UNCHANGED walkVars

\* model_form(schema, ModelForm, only, exclude, field_args, converter)
CallModelForm ==
    /\ CanCall
    /\ \E filter \in FormFilterChoices(schema) :
          \E r \in {model_form(schema, "ModelForm", filter[1], filter[2], field_args,
                               converter)} :
              /\ last' = [op |-> "model_form", only |-> filter[1],
                          exclude |-> filter[2], field_args |-> field_args,
                          converter |-> converter, ret |-> r.ret]
              /\ field_args' = r.field_args
    /\ UNCHANGED <<schema, probe, field_args0, converters, converters0, converter>>
    /\ UNCHANGED walkVars

\* converter.convert(schema, schema._fields[name], field_args.get(name))
CallConvert ==
    /\ CanCall
    /\ converter # NoConverter
    /\ \E i \in 1..Len(Fields(schema)) :
          \E fld \in {Fields(schema)[i]} :
          \E r \in {convert(converter, schema, fld, Get(field_args, fld.name))} :
              /\ last' = [op |-> "convert", field |-> fld,
                          field_args |-> field_args, converter |-> converter,
                          ret |-> r.ret]
              /\ field_args' = IF fld.name \in DOMAIN field_args
                               THEN [field_args EXCEPT ![fld.name] = r.entry]
                               ELSE field_args
    /\ UNCHANGED <<schema, probe, field_args0, converters, converters0, converter>>
    /\ UNCHANGED walkVars

Next ==
    \/ NewModelConverter
    \/ CallModelFields
    \/ CallModelForm
    \/ CallConvert

Spec == Init /\ [][Next]_vars

\* ------------------------------------------------------- reading results
\* Number of required-style validators in a validator list.
CountRequired(validators) ==
    Cardinality({ i \in DOMAIN validators : validators[i] = Required })

\* The fields of a form class: the attributes of its dict that are unbound
\* fields (the schema class stored under model_class is not one).
FormFieldsOf(cls) ==
    [ n \in { m \in DOMAIN cls.dict : cls.dict[m].kind # "class" } |-> cls.dict[n] ]

\* The latest call returned a field mapping.
ReturnedMapping == last.op = "model_fields" /\ last.ret # TypeError

\* The latest call returned a form class.
ReturnedClass == last.op = "model_form" /\ last.ret # TypeError

\* The mapping the latest model_fields or model_form call produced.
LastMapping ==
    IF last.op = "model_fields" THEN last.ret ELSE FormFieldsOf(last.ret)

\* The converter the latest call's walk used.
LastConverter ==
    IF last.converter # NoConverter THEN last.converter ELSE DefaultConverter

\* The field types section 4.2 of the specification calls unsupported.
Unsupported == {"GeoLocationField", "GenericReferenceField", "ObjectIdField"}

\* The field is converted by its type alone: it declares no choices and has
\* no conversion method of its own.
ByType(field) == field.choices = <<>> /\ ~field.to_form_field

\* The schema fields the latest model_fields call walked.
Walked ==
    { FieldNamed(schema, n) :
        n \in { FilterNames(FieldNames(schema), last.only, last.exclude)[i] :
                  i \in DOMAIN FilterNames(FieldNames(schema), last.only, last.exclude) } }

\* --------------------------------------------------------------------- C1
\* C1 as stated: a field of an unsupported type converts to nothing whatever
\* its other attributes are, and model_fields never returns its name.
C1_Original ==
    /\ last.op = "convert" /\ last.field.type \in Unsupported
          => last.ret = Nothing
    /\ ReturnedMapping
          => \A i \in 1..Len(Fields(schema)) :
                Fields(schema)[i].type \in Unsupported
                    => Fields(schema)[i].name \notin DOMAIN last.ret

\* C1 amended: a field of an unsupported type that declares no choices and
\* has no self-conversion method converts to nothing, whatever its required
\* flag and field_args override are, and model_fields never returns its name.
C1_Amended ==
    /\ last.op = "convert" /\ last.field.type \in Unsupported /\ ByType(last.field)
          => last.ret = Nothing
    /\ ReturnedMapping
          => \A i \in 1..Len(Fields(schema)) :
                Fields(schema)[i].type \in Unsupported /\ ByType(Fields(schema)[i])
                    => Fields(schema)[i].name \notin DOMAIN last.ret

\* A required object-id field with a field_args override was walked by
\* model_fields and left out of the mapping.
C1_Witness ==
    /\ ReturnedMapping
    /\ schema = "Probe" /\ probe.type = "ObjectIdField" /\ probe.required
    /\ ByType(probe)
    /\ last.field_args # EmptyDict
    /\ last.only = None /\ last.exclude = None
    /\ last.ret = EmptyDict

\* --------------------------------------------------------------------- C2
\* The form field produced for a schema field of the walked schema, if any.
Produced(field) ==
    IF last.op = "convert"
    THEN IF last.field = field THEN last.ret ELSE Nothing
    ELSE IF ReturnedMapping /\ field \in Walked /\ field.name \in DOMAIN last.ret
         THEN last.ret[field.name]
         ELSE Nothing

\* The validators list the caller's field_args override held for the field
\* when the latest call began.
SuppliedValidators(field) ==
    LET entry == Get(last.field_args, field.name)
    IN  IF "validators" \in DOMAIN entry THEN entry.validators ELSE <<>>

\* The built-in conversions that pass the inherited kwargs on to the field.
KeepKwargs ==
    { "conv_String", "conv_URL", "conv_Email", "conv_Int", "conv_Float",
      "conv_Decimal", "conv_Boolean", "conv_DateTime", "conv_Binary",
      "conv_Dict", "conv_Reference" }

\* The field is converted by the choices short-circuit or by a built-in
\* conversion that keeps the inherited kwargs.
ConvertedWithKwargs(field) ==
    \/ field.choices # <<>>
    \/ /\ ~field.to_form_field
       /\ field.type \in DOMAIN LastConverter
       /\ LastConverter[field.type] \in KeepKwargs

\* C2 as stated: every required field that converts to a form field has
\* exactly one required-style validator in the produced field.
C2_Original ==
    last.op \in {"convert", "model_fields"}
        => \A i \in 1..Len(Fields(schema)) :
              LET field == Fields(schema)[i]
              IN  field.required /\ Produced(field) # Nothing
                      => CountRequired(Produced(field).kwargs.validators) = 1

\* C2 amended: every required field converted by the choices short-circuit
\* or by a built-in conversion other than the list, sorted-list and
\* embedded-document ones has, in the produced field, exactly one
\* required-style validator more than the validators list of its field_args
\* override held when the call began (exactly one when there was none).
C2_Amended ==
    last.op \in {"convert", "model_fields"}
        => \A i \in 1..Len(Fields(schema)) :
              LET field == Fields(schema)[i]
              IN  field.required /\ Produced(field) # Nothing
                    /\ ConvertedWithKwargs(field)
                      => CountRequired(Produced(field).kwargs.validators)
                            = CountRequired(SuppliedValidators(field)) + 1

\* A required integer field with declared bounds and a label override was
\* converted: its field has the range validator and one required validator.
C2_Witness ==
    /\ last.op = "convert"
    /\ schema = "Probe" /\ probe.type = "IntField" /\ probe.required /\ ByType(probe)
    /\ probe.min_value = Some(MaxVal)
    /\ "label" \in DOMAIN Get(last.field_args, "p")
    /\ last.ret # Nothing
    /\ Len(last.ret.kwargs.validators) = 2
    /\ CountRequired(last.ret.kwargs.validators) = 1

\* --------------------------------------------------------------------- C3
NumericTypes == {"IntField", "FloatField", "DecimalField"}

NumericKinds == {"IntegerField", "FloatField", "DecimalField"}

HasValidator(unbound, v) ==
    \E i \in DOMAIN unbound.kwargs.validators : unbound.kwargs.validators[i] = v

\* C3: every integer, float or decimal field that declares a minimum or a
\* maximum value (0 included) yields a numeric form field carrying a range
\* validator with the declared bounds.
C3_Claim ==
    last.op \in {"convert", "model_fields"}
        => \A i \in 1..Len(Fields(schema)) :
              LET field == Fields(schema)[i]
                  declared == field.min_value # None \/ field.max_value # None
              IN  field.type \in NumericTypes /\ declared
                    /\ Produced(field) # Nothing
                    /\ Produced(field).kind \in NumericKinds
                      => HasValidator(Produced(field),
                                      NumberRange(field.max_value, field.min_value))

\* --------------------------------------------------------------------- C4
\* The names of the schema's fields that convert to a form field under the
\* latest call's converter and field_args.
Convertible ==
    DOMAIN model_fields(schema, None, None, last.field_args, last.converter).ret

\* C4: when only is supplied the keys are the convertible names in only,
\* whether or not exclude is supplied; when only exclude is supplied the keys
\* are the convertible names not in exclude.
C4_Claim ==
    ReturnedMapping
        => /\ last.only # None
                => DOMAIN last.ret = Convertible \cap last.only[1]
           /\ last.only = None /\ last.exclude # None
                => DOMAIN last.ret = Convertible \ last.exclude[1]

\* --------------------------------------------------------------------- C5
\* C5: the sub-form an embedded-document field converts to has exactly the
\* fields the schema walk gives for the embedded schema under the converter
\* the outer call was given.
C5_Claim ==
    ReturnedMapping
        => \A field \in Walked :
              field.type = "EmbeddedDocumentField" /\ ByType(field)
                /\ field.name \in DOMAIN last.ret
                  => /\ last.ret[field.name].kind = "FormField"
                     /\ FormFieldsOf(last.ret[field.name].form_class)
                          = model_fields(field.document_type_obj, None, None,
                                         EmptyDict, last.converter).ret

\* --------------------------------------------------------------------- C6
\* C6: the class model_form returns is named after the schema, its fields
\* are exactly the entries model_fields returns for the same arguments, and
\* it carries the schema class under model_class.
C6_Claim ==
    ReturnedClass
        => /\ last.ret.name = schema \o "Form"
           /\ FormFieldsOf(last.ret)
                = model_fields(schema, last.only, last.exclude, last.field_args,
                               last.converter).ret
           /\ last.ret.dict["model_class"] = ClassRef(schema)

\* --------------------------------------------------------------------- C7
\* The type names both the caller's table and the default table map.
Collisions == DOMAIN converters0 \cap DOMAIN DefaultConverters

\* The latest call was a convert dispatched by the field's type name.
DispatchedByType == last.op = "convert" /\ ByType(last.field)

\* C7 as stated: on a collision the caller's entry wins, in the registry
\* and in the dispatch of convert.
C7_Original ==
    converter # NoConverter
        => /\ \A t \in Collisions : converter[t] = converters0[t]
           /\ DispatchedByType /\ last.field.type \in Collisions
                => last.ret = caller_conv(converter, schema, last.field,
                                          last.ret.kwargs).ret

\* C7 amended: on a collision the default entry wins: after construction the
\* registry maps every type name of the default table to the built-in
\* method, convert dispatches fields of such a type to it, and a caller's
\* entry is kept only for a type name the default table lacks.
C7_Amended ==
    converter # NoConverter
        => /\ \A t \in DOMAIN DefaultConverters : converter[t] = DefaultConverters[t]
           /\ \A t \in DOMAIN converters0 \ DOMAIN DefaultConverters :
                 converter[t] = converters0[t]
           /\ DispatchedByType /\ last.field.type \in Collisions
                => last.ret = convert(DefaultConverters, schema, last.field,
                                      Get(last.field_args, last.field.name)).ret

\* A converter built from a table that maps StringField converted a string
\* field, and the built-in conversion produced the form field.
C7_Witness ==
    /\ converters0 = [StringField |-> "caller_conv"]
    /\ converter # NoConverter
    /\ DispatchedByType /\ last.field.type = "StringField"
    /\ last.ret.kind \in {"TextField", "TextAreaField"}

\* --------------------------------------------------------------------- C8
\* C8: after any sequence of calls with the same schema and field_args
\* object, field_args and its lists equal their initial values and the
\* latest call returned what the first call with its arguments returned.
C8_Claim ==
    /\ field_args = field_args0
    /\ ReturnedMapping
          => last.ret = model_fields(schema, last.only, last.exclude, field_args0,
                                     last.converter).ret
    /\ ReturnedClass
          => last.ret = model_form(schema, "ModelForm", last.only, last.exclude,
                                   field_args0, last.converter).ret

\* --------------------------------------------------------------------- C9
RECURSIVE WrapsNothing(_)
\* A form-field descriptor that wraps 'nothing' at some nesting level.
WrapsNothing(unbound) ==
    \/ /\ unbound.kind = "FieldList"
       /\ \/ unbound.unbound_field = Nothing
          \/ WrapsNothing(unbound.unbound_field)
    \/ /\ unbound.kind = "FormField"
       /\ \E n \in DOMAIN unbound.form_class.dict :
             WrapsNothing(unbound.form_class.dict[n])

\* C9: no form-field descriptor in a mapping model_fields returns wraps
\* 'nothing', at any nesting level.
C9_Claim ==
    ReturnedMapping => \A n \in DOMAIN last.ret : ~WrapsNothing(last.ret[n])

\* ------------------------------------------------------ the stepwise walk
\* The same code, one call or return per step: the call stack of a
\* model_form / model_fields call made with the default converter and no
\* field_args.  A frame is waiting once it has called and not yet resumed.
Frame(fn, doc, names, field) ==
    [fn |-> fn, doc |-> doc, names |-> names, field |-> field, waiting |-> FALSE]

Top == stack[Len(stack)]

\* The caller's frame, marked as waiting for the call it makes.
Waiting == [stack EXCEPT ![Len(stack)].waiting = TRUE]

\* A call: push the callee's frame, or exceed the recursion limit.
Call(caller, frame) ==
    IF Len(stack) < MaxDepth
    THEN stack' = Append(caller, frame) /\ pc' = pc
    ELSE stack' = <<>> /\ pc' = "RecursionError"

\* A return: pop the frame; the outermost return ends the walk.
Return ==
    /\ stack' = SubSeq(stack, 1, Len(stack) - 1)
    /\ pc' = IF Len(stack) = 1 THEN "returned" ELSE pc

\* A conversion that recurses into the schema that owns the field.
EmbeddedTarget_owner(model, field) == model

\* conv_EmbeddedDocument, line 161: the schema the nested form is built for.
EmbeddedTarget(model, field) == field.document_type_obj

\* model_fields, line 197: the loop moves on to the next name.
NextNames(names) == Tail(names)

\* The conversion method convert dispatches the field to, if any.
Dispatch(self, field) ==
    IF ByType(field) /\ field.type \in DOMAIN self THEN self[field.type] ELSE "none"

InitWalk ==
    /\ schema \in Documents \cup CyclicDocuments
    /\ probe = Field("p", "StringField")
    /\ field_args = EmptyDict
    /\ field_args0 = EmptyDict
    /\ converters = EmptyDict
    /\ converters0 = EmptyDict
    /\ converter = NoConverter
    /\ \E op \in {"model_fields", "model_form"}, filter \in FilterChoices(schema) :
          /\ last = [op |-> op, only |-> filter[1], exclude |-> filter[2]]
          /\ stack = << Frame(op, schema,
                              FilterNames(FieldNames(schema), filter[1], filter[2]),
                              NoField) >>
    /\ nested = 0
    /\ pc = "running"

\* model_form, line 231: call model_fields with the same arguments.
EnterModelForm ==
    /\ pc = "running" /\ stack # <<>>
    /\ Top.fn = "model_form" /\ ~Top.waiting
    /\ Call(Waiting, Frame("model_fields", Top.doc, Top.names, NoField))
    /\ UNCHANGED nested
    /\ UNCHANGED callVars

\* model_fields, lines 197-199: convert the next remaining name.
LoopModelFields ==
    /\ pc = "running" /\ stack # <<>>
    /\ Top.fn = "model_fields" /\ Top.names # <<>>
    /\ Call([stack EXCEPT ![Len(stack)].names = NextNames(@)],
            Frame("convert", Top.doc, <<>>, FieldNamed(Top.doc, Head(Top.names))))
    /\ UNCHANGED nested
    /\ UNCHANGED callVars

\* model_fields, line 203: every name is converted.
ReturnModelFields ==
    /\ pc = "running" /\ stack # <<>>
    /\ Top.fn = "model_fields" /\ Top.names = <<>>
    /\ Return
    /\ UNCHANGED nested
    /\ UNCHANGED callVars

\* convert, lines 50-60, for a field the call itself finishes: choices, the
\* field's own conversion, an unregistered type, or a conversion method
\* that calls nothing of this module.
ConvertLeaf ==
    /\ pc = "running" /\ stack # <<>>
    /\ Top.fn = "convert" /\ ~Top.waiting
    /\ Dispatch(DefaultConverter, Top.field)
          \notin {"conv_List", "conv_SortedList", "conv_EmbeddedDocument"}
    /\ Return
    /\ UNCHANGED nested
    /\ UNCHANGED callVars

\* convert, line 60: call the conversion method of a composite field.
ConvertDispatch ==
    /\ pc = "running" /\ stack # <<>>
    /\ Top.fn = "convert" /\ ~Top.waiting
    /\ Dispatch(DefaultConverter, Top.field)
          \in {"conv_List", "conv_SortedList", "conv_EmbeddedDocument"}
    /\ Call(Waiting, Frame(Dispatch(DefaultConverter, Top.field), Top.doc, <<>>, Top.field))
    /\ UNCHANGED nested
    /\ UNCHANGED callVars

\* conv_SortedList, line 144: forward to conv_List.
StepSortedList ==
    /\ pc = "running" /\ stack # <<>>
    /\ Top.fn = "conv_SortedList" /\ ~Top.waiting
    /\ Call(Waiting, Frame("conv_List", Top.doc, <<>>, Top.field))
    /\ UNCHANGED nested
    /\ UNCHANGED callVars

\* conv_List, line 138: convert the element field.
StepList ==
    /\ pc = "running" /\ stack # <<>>
    /\ Top.fn = "conv_List" /\ ~Top.waiting
    /\ Call(Waiting, Frame("convert", Top.doc, <<>>, Top.field.field))
    /\ UNCHANGED nested
    /\ UNCHANGED callVars

\* conv_EmbeddedDocument, line 161: the nested model_form call.
StepEmbeddedDocument ==
    /\ pc = "running" /\ stack # <<>>
    /\ Top.fn = "conv_EmbeddedDocument" /\ ~Top.waiting
    /\ LET doc == EmbeddedTarget(Top.doc, Top.field)
       IN  Call(Waiting, Frame("model_form", doc, FieldNames(doc), NoField))
    /\ nested' = nested + 1
    /\ UNCHANGED callVars

\* The callee has returned: the waiting frame builds its result and returns.
Resume ==
    /\ pc = "running" /\ stack # <<>>
    /\ Top.waiting
    /\ Return
    /\ UNCHANGED nested
    /\ UNCHANGED callVars

NextWalk ==
    \/ EnterModelForm
    \/ LoopModelFields
    \/ ReturnModelFields
    \/ ConvertLeaf
    \/ ConvertDispatch
    \/ StepSortedList
    \/ StepList
    \/ StepEmbeddedDocument
    \/ Resume

\* The interpreter runs the synchronous call to its end: a step that can be
\* taken is taken.
SpecWalk == InitWalk /\ [][NextWalk]_vars /\ WF_vars(NextWalk)

\* -------------------------------------------------------------------- C10
RECURSIVE FieldOccurrences(_)
RECURSIVE DocOccurrences(_, _)
\* Embedded-document field occurrences met when the field is converted by
\* its type: the field itself, those of the schema it embeds, and those
\* met through list and sorted-list element fields.
FieldOccurrences(field) ==
    IF ~ByType(field)
    THEN 0
    ELSE IF field.type \in {"ListField", "SortedListField"}
         THEN FieldOccurrences(field.field)
         ELSE IF field.type = "EmbeddedDocumentField"
              THEN 1 + DocOccurrences(field.document_type_obj,
                                      FieldNames(field.document_type_obj))
              ELSE 0

\* Embedded-document field occurrences met when the named fields of a
\* schema are walked.
DocOccurrences(doc, names) ==
    IF names = <<>>
    THEN 0
    ELSE FieldOccurrences(FieldNamed(doc, Head(names)))
            + DocOccurrences(doc, Tail(names))

====
